---- MODULE Spec2Model ----
(***************************************************************************)
(* Verification model of the FWI-DL utility scripts:                       *)
(*   src/src/scripts/gk4214-to-kml.py  (coordinate file -> outline -> KML)  *)
(*   src/src/util/filehandler.py       (find_viable_arrays folder scan)     *)
(*                                                                         *)
(* Coordinates are integers counted in grid units of half a tolerance      *)
(* (0.005), so that points closer than the tolerance exist and the         *)
(* round-half-to-even of numpy.round is exercised in both directions.      *)
(***************************************************************************)
EXTENDS Integers, Sequences, FiniteSets, TLC

VARIABLES pc, caller, points, original_count, unique_count, co_count, co_unique,
          outline_points, source_crs, rejected, final_points, kml, out, raised,
          args, crs_result,
          dd_in, dd_once, dd_twice,
          rd_n, rd_points, rd_expected,
          folder, todo, valid_arrays

pipeVars == <<caller, points, original_count, unique_count, co_count, co_unique,
              outline_points, source_crs, rejected, final_points, kml, raised>>
crsVars == <<args, crs_result>>
dedupVars == <<dd_in, dd_once, dd_twice>>
readVars == <<rd_n, rd_points, rd_expected>>
scanVars == <<folder, todo, valid_arrays>>

vars == <<pc, out, pipeVars, crsVars, dedupVars, readVars, scanVars>>


\* ------------------------------------------------------------------ bounds
MaxCoord == 3
MaxPoints == 3

\* remove_duplicate_points(points, tolerance=0.01): the tolerance in grid units
tolerance == 2

\* the coordinates explored: the grid points of the triangle x + y <= MaxCoord,
\* which holds lines parallel to both axes, a diagonal, and points closer than
\* the tolerance
Coords == 0..MaxCoord
Grid == {p \in Coords \X Coords : p[1] + p[2] <= MaxCoord}

RECURSIVE SeqsUpTo(_, _)
SeqsUpTo(S, n) ==
    IF n = 0 THEN {<<>>}
    ELSE LET shorter == SeqsUpTo(S, n - 1)
         IN  shorter \cup {Append(s, e) : s \in {t \in shorter : Len(t) = n - 1}, e \in S}

Range(s) == {s[i] : i \in 1..Len(s)}

\* ----------------------------------------------------- remove_duplicate_points
\* numpy.round: to the nearest integer, a tie going to the even neighbour
np_round(c, t) ==
    LET q == c \div t
        r == c % t
    IN  IF 2 * r < t THEN q
        ELSE IF 2 * r > t THEN q + 1
        ELSE IF q % 2 = 0 THEN q ELSE q + 1

\* one row of rounded_points = np.round(points / tolerance) * tolerance
rounded_point(p, t) == <<np_round(p[1], t) * t, np_round(p[2], t) * t>>

\* the row order numpy.unique(axis=0) sorts by: lexicographic
RowLess(a, b) == a[1] < b[1] \/ (a[1] = b[1] /\ a[2] < b[2])

RECURSIVE SortRows(_)
SortRows(S) ==
    IF S = {} THEN <<>>
    ELSE LET m == CHOOSE a \in S : \A b \in S \ {a} : RowLess(a, b)
         IN  <<m>> \o SortRows(S \ {m})

\* np.unique(rounded_points, axis=0, return_index=True)[1]: for each distinct row,
\* in sorted row order, the index of its first occurrence
unique_indices(P, t) ==
    LET rows == SortRows({rounded_point(P[i], t) : i \in 1..Len(P)})
        first(r) == CHOOSE i \in 1..Len(P) :
                       /\ rounded_point(P[i], t) = r
                       /\ \A j \in 1..(i - 1) : rounded_point(P[j], t) # r
    IN  [k \in 1..Len(rows) |-> first(rows[k])]

\* a plausible slip: the slice loses the last unique row
remove_duplicate_points_dropLast(P, t) ==
    IF Len(P) = 0 THEN P
    ELSE LET ix == unique_indices(P, t)
         IN  [k \in 1..(Len(ix) - 1) |-> P[ix[k]]]

\* a plausible slip: the rounded rows are returned instead of the original points
remove_duplicate_points_rounded(P, t) ==
    IF Len(P) = 0 THEN P
    ELSE LET ix == unique_indices(P, t)
         IN  [k \in 1..Len(ix) |-> rounded_point(P[ix[k]], t)]

remove_duplicate_points(P, t) ==
    IF Len(P) = 0 THEN P
    ELSE LET ix == unique_indices(P, t)
         IN  [k \in 1..Len(ix) |-> P[ix[k]]]

\* ------------------------------------------------------------ ConvexHull (scipy)
Cross(o, a, b) == (a[1] - o[1]) * (b[2] - o[2]) - (a[2] - o[2]) * (b[1] - o[1])

Collinear(S) == \A a \in S, b \in S, c \in S : Cross(a, b, c) = 0

Between(v, lo, hi) == (lo <= v /\ v <= hi) \/ (hi <= v /\ v <= lo)

OnSegment(p, a, b) ==
    /\ Cross(a, b, p) = 0
    /\ Between(p[1], a[1], b[1])
    /\ Between(p[2], a[2], b[2])

InTriangle(p, a, b, c) ==
    LET d1 == Cross(a, b, p)
        d2 == Cross(b, c, p)
        d3 == Cross(c, a, p)
    IN  /\ Cross(a, b, c) # 0
        /\ ~ ((d1 < 0 \/ d2 < 0 \/ d3 < 0) /\ (d1 > 0 \/ d2 > 0 \/ d3 > 0))

\* the extreme points of S: those outside the hull of the others
HullVertexSet(S) ==
    {p \in S :
        LET R == S \ {p}
        IN  /\ ~ \E a \in R, b \in R : OnSegment(p, a, b)
            /\ ~ \E a \in R, b \in R, c \in R : InTriangle(p, a, b, c)}

\* hull.vertices of a 2-D hull are in counterclockwise order: after v comes the
\* vertex that has every other vertex strictly on its left
RECURSIVE CcwFrom(_, _, _)
CcwFrom(V, v, n) ==
    IF n = 0 THEN <<>>
    ELSE LET w == CHOOSE u \in V \ {v} :
                      \A x \in V \ {v, u} : Cross(v, u, x) > 0
         IN  <<v>> \o CcwFrom(V, w, n - 1)

\* points[hull.vertices] for every vertex Qhull may list first
HullOutlines(S) ==
    LET V == HullVertexSet(S)
    IN  {CcwFrom(V, v, Cardinality(V)) : v \in V}

\* ConvexHull(points) raises QhullError (initial simplex is flat) when all the
\* points lie on one line
StandardHullFails(S) == Collinear(S)

\* ConvexHull(points, qhull_options='QbB QJ Qc'): QbB scales every dimension to
\* the unit box and raises when one dimension has no extent
RelaxedHullFails(S) ==
    \/ \A a \in S, b \in S : a[1] = b[1]
    \/ \A a \in S, b \in S : a[2] = b[2]

Perms(S) ==
    {s \in [1..Cardinality(S) -> S] : \A i, j \in 1..Cardinality(S) : i # j => s[i] # s[j]}

\* with QJ the joggled input is in general position: a point set that is not
\* collinear gives its hull; a collinear one gives the two end points and at
\* least one more point, in the order the joggle happens to produce
RelaxedOutlines(S) ==
    IF ~ Collinear(S) THEN HullOutlines(S)
    ELSE LET ends == {p \in S : ~ \E a \in S \ {p}, b \in S \ {p} : OnSegment(p, a, b)}
         IN  UNION {Perms(V) : V \in {W \in SUBSET S : ends \subseteq W /\ Cardinality(W) >= 3}}

\* ------------------------------------------------------------ create_bounding_box
MinOf(S) == CHOOSE m \in S : \A x \in S : m <= x
MaxOf(S) == CHOOSE m \in S : \A x \in S : m >= x

create_bounding_box(P) ==
    LET min_x == MinOf({P[i][1] : i \in 1..Len(P)})
        min_y == MinOf({P[i][2] : i \in 1..Len(P)})
        max_x == MaxOf({P[i][1] : i \in 1..Len(P)})
        max_y == MaxOf({P[i][2] : i \in 1..Len(P)})
    IN  << <<min_x, min_y>>, <<max_x, min_y>>, <<max_x, max_y>>, <<min_x, max_y>> >>

\* ------------------------------------------------------------ get_crs_from_args
MaxZone == 10

Hemispheres == {"n", "s", "north", "south"}

\* the parsed command line: --no-conversion, --utm-zone (type=int, default None),
\* --utm-hemisphere (choices, default n)
\* (an option left out is the empty sequence, a given zone a one-element one)
NoZone == <<>>
Args == [no_conversion : BOOLEAN, utm_zone : {NoZone} \cup {<<z>> : z \in 0..MaxZone},
         utm_hemisphere : Hemispheres]

DigitChar(d) == <<"0", "1", "2", "3", "4", "5", "6", "7", "8", "9">>[d + 1]

RECURSIVE Digits(_)
Digits(n) == IF n < 10 THEN <<DigitChar(n)>> ELSE Append(Digits(n \div 10), DigitChar(n % 10))

\* the format specification 02d: decimal digits, zero-padded to a width of two
Format02d(n) == IF n < 10 THEN <<"0">> \o Digits(n) ELSE Digits(n)

\* Python's None as a reference system, and the strings the function builds
NoneCrs == <<"None">>
EPSG(tail) == <<"E", "P", "S", "G", ":">> \o tail

\* truthiness of args.utm_zone: None and 0 are both false
ZoneGiven(a) == a.utm_zone # NoZone /\ a.utm_zone[1] # 0

get_crs_from_args(a) ==
    IF a.no_conversion THEN NoneCrs
    ELSE IF ZoneGiven(a)
         THEN IF a.utm_hemisphere = "s"
              THEN EPSG(<<"3", "2", "7">> \o Format02d(a.utm_zone[1]))
              ELSE EPSG(<<"3", "2", "6">> \o Format02d(a.utm_zone[1]))
         ELSE EPSG(<<"3", "1", "4", "6", "8">>)

\* ------------------------------------------------------------ convert_coordinates
\* transformer.transform(x, y) is the library's projection: an uninterpreted pair
\* of terms over the input coordinates
transform(p) == << <<"lon", p[1], p[2]>>, <<"lat", p[1], p[2]>> >>

\* a plausible slip: the first failing point ends the loop (break for continue)
RECURSIVE convert_loop_break(_, _)
convert_loop_break(P, bad) ==
    IF P = <<>> THEN <<>>
    ELSE IF Head(P) \in bad THEN <<>>
    ELSE <<Append(transform(Head(P)), 0)>> \o convert_loop_break(Tail(P), bad)

\* the loop of convert_coordinates: bad is the set of points whose transform raises
RECURSIVE convert_loop(_, _)
convert_loop(P, bad) ==
    IF P = <<>> THEN <<>>
    ELSE IF Head(P) \in bad THEN convert_loop(Tail(P), bad)
    ELSE <<Append(transform(Head(P)), 0)>> \o convert_loop(Tail(P), bad)

\* one warning is printed for every point that fails
RECURSIVE convert_warnings(_, _)
convert_warnings(P, bad) ==
    IF P = <<>> THEN <<>>
    ELSE IF Head(P) \in bad THEN <<"Warning: Could not transform point">> \o convert_warnings(Tail(P), bad)
    ELSE convert_warnings(Tail(P), bad)

\* np.column_stack([final_points, np.zeros(len(final_points))])
column_stack_zeros(P) == [i \in 1..Len(P) |-> Append(P[i], 0)]

\* ------------------------------------------------------------ the converter run
\* main's continuation depends on the options only through the reference system
\* being None or not; get_crs_from_args is explored over all of Args in SpecCrs
MainArgs == {a \in Args : a.utm_zone \in {NoZone, <<1>>} /\ a.utm_hemisphere = "n"}

Unset == <<>>

\* the variables of the other operations, while one operation is explored
PipeIdle ==
    /\ caller = "none"
    /\ points = Unset
    /\ original_count = -1
    /\ unique_count = -1
    /\ co_count = -1
    /\ co_unique = -1
    /\ outline_points = Unset
    /\ source_crs = Unset
    /\ rejected = {}
    /\ final_points = Unset
    /\ kml = <<>>
    /\ raised = ""

CrsIdle == args = Unset /\ crs_result = Unset
DedupIdle == dd_in = Unset /\ dd_once = Unset /\ dd_twice = Unset
ReadIdle == rd_n = 0 /\ rd_points = Unset /\ rd_expected = Unset
ScanIdle == folder = Unset /\ todo = Unset /\ valid_arrays = Unset

PipeInit ==
    /\ caller \in {"main", "direct"}
    /\ pc = IF caller = "main" THEN "main" ELSE "create_outline_polygon"
    /\ points \in SeqsUpTo(Grid, MaxPoints)
    /\ original_count = -1
    /\ unique_count = -1
    /\ co_count = -1
    /\ co_unique = -1
    /\ outline_points = Unset
    /\ source_crs = Unset
    /\ rejected = {}
    /\ final_points = Unset
    /\ kml = <<>>
    /\ out = <<>>
    /\ raised = ""
    /\ args = Unset
    /\ crs_result = Unset
    /\ DedupIdle
    /\ ReadIdle
    /\ ScanIdle

\* a plausible slip: main leaves the second check to create_outline_polygon
main_unique_too_few_missing(n) == FALSE

\* main, line 207: if unique_count < 3
main_unique_too_few(n) == n < 3

\* main, lines 191-209: read, count, remove duplicates, count again
MainRead ==
    /\ pc = "main"
    /\ original_count' = Len(points)
    /\ IF Len(points) < 3
       THEN /\ out' = Append(out, "Error: Need at least 3 points to create a polygon")
            /\ pc' = "exit"
            /\ UNCHANGED <<points, unique_count>>
       ELSE LET unique == remove_duplicate_points(points, tolerance)
            IN  /\ points' = unique
                /\ unique_count' = Len(unique)
                /\ IF main_unique_too_few(Len(unique))
                   THEN /\ out' = Append(out, "Error: Need at least 3 unique points to create a polygon")
                        /\ pc' = "exit"
                   ELSE /\ out' = out
                        /\ pc' = "create_outline_polygon"
    /\ UNCHANGED <<caller, co_count, co_unique, outline_points, source_crs, rejected,
                   final_points, kml, raised, crsVars, dedupVars, readVars, scanVars>>

\* raise ValueError inside create_outline_polygon: main's except prints it and the
\* run ends; a direct caller gets the exception
Raise(msg) ==
    IF caller = "main"
    THEN /\ out' = Append(out, "Error: " \o msg)
         /\ pc' = "exit"
         /\ raised' = raised
    ELSE /\ out' = out
         /\ pc' = "raised"
         /\ raised' = msg

\* create_outline_polygon, lines 43-50
CoEnter ==
    /\ pc = "create_outline_polygon"
    /\ co_count' = Len(points)
    /\ IF Len(points) < 3
       THEN /\ Raise("Need at least 3 points to create a polygon")
            /\ UNCHANGED <<points, co_unique>>
       ELSE LET unique == remove_duplicate_points(points, tolerance)
            IN  /\ points' = unique
                /\ co_unique' = Len(unique)
                /\ IF Len(unique) < 3
                   THEN Raise("Need at least 3 unique points to create a polygon")
                   ELSE /\ pc' = "hull"
                        /\ UNCHANGED <<out, raised>>
    /\ UNCHANGED <<caller, original_count, unique_count, outline_points, source_crs,
                   rejected, final_points, kml, crsVars, dedupVars, readVars, scanVars>>

\* a plausible slip: the first failure goes straight to the bounding box
AfterStandardFailure_skip == "bbox"

\* lines 56-60: the except branch of the standard hull enters the second try
AfterStandardFailure == "relaxed"

\* lines 52-57: ConvexHull(points)
CoHull ==
    /\ pc = "hull"
    /\ IF StandardHullFails(Range(points))
       THEN /\ out' = Append(out, "ConvexHull failed")
            /\ pc' = AfterStandardFailure
            /\ UNCHANGED outline_points
       ELSE /\ outline_points' \in HullOutlines(Range(points))
            /\ pc' = "close"
            /\ UNCHANGED out
    /\ UNCHANGED <<caller, points, original_count, unique_count, co_count, co_unique,
                   source_crs, rejected, final_points, kml, raised, crsVars, dedupVars, readVars, scanVars>>

\* lines 60-64: ConvexHull(points, qhull_options='QbB QJ Qc')
CoRelaxed ==
    /\ pc = "relaxed"
    /\ IF RelaxedHullFails(Range(points))
       THEN /\ out' = Append(out, "QHull with options failed")
            /\ pc' = "bbox"
            /\ UNCHANGED outline_points
       ELSE /\ outline_points' \in RelaxedOutlines(Range(points))
            /\ pc' = "close"
            /\ UNCHANGED out
    /\ UNCHANGED <<caller, points, original_count, unique_count, co_count, co_unique,
                   source_crs, rejected, final_points, kml, raised, crsVars, dedupVars, readVars, scanVars>>

\* line 67: the bounding box fallback
CoBBox ==
    /\ pc = "bbox"
    /\ outline_points' = create_bounding_box(points)
    /\ pc' = "close"
    /\ UNCHANGED <<caller, points, original_count, unique_count, co_count, co_unique,
                   source_crs, rejected, final_points, kml, out, raised, crsVars, dedupVars, readVars, scanVars>>

\* line 70: np.vstack([outline_points, outline_points[0]])
close_ring(o) == Append(o, o[1])

\* lines 70-72: close the polygon and return it
CoClose ==
    /\ pc = "close"
    /\ outline_points' = close_ring(outline_points)
    /\ pc' = IF caller = "main" THEN "convert" ELSE "returned"
    /\ UNCHANGED <<caller, points, original_count, unique_count, co_count, co_unique,
                   source_crs, rejected, final_points, kml, out, raised, crsVars, dedupVars, readVars, scanVars>>

\* main, lines 217-234: pick the reference system, convert or not, check emptiness
MainConvert ==
    /\ pc = "convert"
    /\ \E a \in MainArgs :
         LET crs == get_crs_from_args(a)
         IN  /\ args' = a
             /\ source_crs' = crs
             /\ IF crs = NoneCrs
                THEN /\ final_points' = column_stack_zeros(outline_points)
                     /\ rejected' = {}
                     /\ out' = out
                     /\ pc' = "kml"
                ELSE \E built \in BOOLEAN :
                       IF ~ built
                       THEN /\ out' = Append(out, "Error: Could not initialize coordinate transformer")
                            /\ pc' = "exit"
                            /\ UNCHANGED <<final_points, rejected>>
                       ELSE \E bad \in SUBSET Range(outline_points) :
                              LET converted == convert_loop(outline_points, bad)
                                  warned == out \o convert_warnings(outline_points, bad)
                              IN  /\ rejected' = bad
                                  /\ final_points' = converted
                                  /\ IF Len(converted) = 0
                                     THEN /\ out' = Append(warned, "Error: No points were successfully processed")
                                          /\ pc' = "exit"
                                     ELSE /\ out' = warned
                                          /\ pc' = "kml"
    /\ UNCHANGED <<caller, points, original_count, unique_count, co_count, co_unique,
                   outline_points, kml, raised, crs_result,
                   dedupVars, readVars, scanVars>>

\* main, lines 236-248, and create_kml_file: the overlay file is saved
MainKml ==
    /\ pc = "kml"
    /\ kml' = Append(kml, [coords |-> final_points,
                           original_points_count |-> original_count,
                           total_outline_points |-> Len(final_points),
                           is_latlon |-> source_crs # NoneCrs])
    /\ out' = Append(out, "KML file saved")
    /\ pc' = "exit"
    /\ UNCHANGED <<caller, points, original_count, unique_count, co_count, co_unique,
                   outline_points, source_crs, rejected, final_points, raised, crsVars, dedupVars, readVars, scanVars>>

Next ==
    \/ MainRead
    \/ CoEnter
    \/ CoHull
    \/ CoRelaxed
    \/ CoBBox
    \/ CoClose
    \/ MainConvert
    \/ MainKml

Spec == PipeInit /\ [][Next]_vars

\* ------------------------------------------------------------ claims on the run
Closed(ring) == Len(ring) >= 1 /\ ring[1] = ring[Len(ring)]

\* C1: every outline create_outline_polygon returns is a closed ring (first point
\* equal to last point) with at least 3 distinct vertices, whichever branch made it
C1_ReturnedRingHasThreeVertices ==
    pc = "returned" =>
        /\ Closed(outline_points)
        /\ Cardinality(Range(outline_points)) >= 3

Few(n) == n >= 0 /\ n < 3

\* C2: with fewer than 3 points read, or fewer than 3 left after duplicate removal,
\* main stops before it calls create_outline_polygon, a direct call raises, and in
\* both cases there is no outline and no overlay file
C2_TooFewPointsNoOutlineNoFile ==
    /\ (Few(original_count) \/ Few(unique_count)) =>
           /\ pc = "exit"
           /\ co_count = -1
           /\ outline_points = Unset
           /\ kml = <<>>
    /\ (Few(co_count) \/ Few(co_unique)) =>
           /\ outline_points = Unset
           /\ kml = <<>>
           /\ caller = "direct" => (pc = "raised" /\ raised # "")

C2_Witness ==
    /\ caller = "main"
    /\ original_count = 3
    /\ unique_count = 2
    /\ pc = "exit"

\* C6: the sequence main hands to create_kml_file has identical first and last
\* points, with and without reprojection
C6_HandedRingClosed ==
    pc = "kml" => Closed(final_points)

TransformerBuilt == "Error: Could not initialize coordinate transformer" \notin Range(out)

Converted ==
    /\ pc \in {"kml", "exit"}
    /\ source_crs \notin {Unset, NoneCrs}
    /\ TransformerBuilt

Warnings == {i \in 1..Len(out) : out[i] = "Warning: Could not transform point"}

\* C7: once the transformer is built, convert_coordinates returns exactly the
\* points whose transform succeeded, in input order, each with altitude 0; a
\* failing point is absent and stops nothing (the run goes on to the file when a
\* point is left)
C7_FailingPointsDroppedOnly ==
    Converted =>
        LET okIdx == {i \in 1..Len(outline_points) : outline_points[i] \notin rejected}
        IN  /\ Len(final_points) = Cardinality(okIdx)
            /\ \E f \in [1..Len(final_points) -> 1..Len(outline_points)] :
                  /\ {f[k] : k \in 1..Len(final_points)} = okIdx
                  /\ \A k, l \in 1..Len(final_points) : k < l => f[k] < f[l]
                  /\ \A k \in 1..Len(final_points) :
                        final_points[k] = <<transform(outline_points[f[k]])[1],
                                            transform(outline_points[f[k]])[2], 0>>
            /\ Cardinality(Warnings) = Len(outline_points) - Cardinality(okIdx)
            /\ (okIdx # {} /\ pc = "exit") => Len(kml) = 1

C7_Witness ==
    /\ Converted
    /\ pc = "exit"
    /\ Len(kml) = 1
    /\ rejected # {}
    /\ Len(final_points) >= 2
    /\ outline_points[1] \notin rejected

\* C10: the relaxed hull is tried only after the standard hull failed, the
\* bounding box only after both failed, the first step that succeeds supplies the
\* outline, and the outline is closed by appending its first point
C10_FixedDegradationOrder ==
    LET S == Range(points)
        stdFailed == \E i \in 1..Len(out) : out[i] = "ConvexHull failed"
        relFailed == \E i \in 1..Len(out) : out[i] = "QHull with options failed"
        body == SubSeq(outline_points, 1, Len(outline_points) - 1)
    IN  /\ pc = "relaxed" => (stdFailed /\ ~ relFailed /\ outline_points = Unset)
        /\ pc = "bbox" => (out = <<"ConvexHull failed", "QHull with options failed">>
                           /\ outline_points = Unset)
        /\ relFailed => stdFailed
        /\ (pc \in {"returned", "convert", "kml"} \/ (pc = "exit" /\ outline_points # Unset)) =>
              /\ outline_points = Append(body, body[1])
              /\ IF ~ stdFailed
                 THEN ~ StandardHullFails(S) /\ body \in HullOutlines(S)
                 ELSE IF ~ relFailed
                 THEN /\ StandardHullFails(S)
                      /\ ~ RelaxedHullFails(S)
                      /\ body \in RelaxedOutlines(S)
                 ELSE /\ StandardHullFails(S)
                      /\ RelaxedHullFails(S)
                      /\ body = create_bounding_box(points)

C10_Witness ==
    /\ pc = "returned"
    /\ out = <<"ConvexHull failed">>
    /\ Len(outline_points) = 4

\* ------------------------------------------------ remove_duplicate_points alone
DedupInit ==
    /\ pc = "dedup"
    /\ out = <<>>
    /\ dd_in \in SeqsUpTo(Grid, MaxPoints)
    /\ dd_once = Unset
    /\ dd_twice = Unset
    /\ PipeIdle
    /\ CrsIdle
    /\ ReadIdle
    /\ ScanIdle

\* remove_duplicate_points(points)
DedupOnce ==
    /\ pc = "dedup"
    /\ dd_once' = remove_duplicate_points(dd_in, tolerance)
    /\ pc' = "dedup_again"
    /\ UNCHANGED <<out, dd_in, dd_twice, pipeVars, crsVars, readVars, scanVars>>

\* remove_duplicate_points applied to its own result
DedupTwice ==
    /\ pc = "dedup_again"
    /\ dd_twice' = remove_duplicate_points(dd_once, tolerance)
    /\ pc' = "dedup_done"
    /\ UNCHANGED <<out, dd_in, dd_once, pipeVars, crsVars, readVars, scanVars>>

NextDedup ==
    \/ DedupOnce
    \/ DedupTwice

SpecDedup == DedupInit /\ [][NextDedup]_vars

\* the points of an array with their multiplicities
Count(P, p) == Cardinality({i \in 1..Len(P) : P[i] = p})

\* C3: remove_duplicate_points applied to its own output gives exactly the same
\* points
C3_DedupIdempotent ==
    pc = "dedup_done" =>
        /\ Len(dd_twice) = Len(dd_once)
        /\ \A p \in Range(dd_once) \cup Range(dd_twice) : Count(dd_twice, p) = Count(dd_once, p)

C3_Witness ==
    /\ pc = "dedup_done"
    /\ Cardinality(Range(dd_in)) = 3
    /\ Len(dd_once) = 2

\* C4: the result holds original (unrounded) points of the input, exactly one for
\* each distinct rounded value, so it is never longer than the input; an empty
\* input comes back unchanged
C4_OnePointPerRoundedValue ==
    pc \in {"dedup_again", "dedup_done"} =>
        /\ \A k \in 1..Len(dd_once) : dd_once[k] \in Range(dd_in)
        /\ \A p \in Range(dd_in) :
              Cardinality({k \in 1..Len(dd_once) :
                  rounded_point(dd_once[k], tolerance) = rounded_point(p, tolerance)}) = 1
        /\ Len(dd_once) <= Len(dd_in)
        /\ dd_in = <<>> => dd_once = dd_in

C4_Witness ==
    /\ pc = "dedup_again"
    /\ Cardinality(Range(dd_in)) = 3
    /\ Len(dd_once) = 2
    /\ \E k \in 1..2 : rounded_point(dd_once[k], tolerance) # dd_once[k]

\* ------------------------------------------------------ get_crs_from_args alone
CrsInit ==
    /\ pc = "crs"
    /\ out = <<>>
    /\ args \in Args
    /\ crs_result = Unset
    /\ PipeIdle
    /\ DedupIdle
    /\ ReadIdle
    /\ ScanIdle

GetCrs ==
    /\ pc = "crs"
    /\ crs_result' = get_crs_from_args(args)
    /\ pc' = "crs_done"
    /\ UNCHANGED <<out, args, pipeVars, dedupVars, readVars, scanVars>>

NextCrs == GetCrs

SpecCrs == CrsInit /\ [][NextCrs]_vars

\* the number an EPSG string names
RECURSIVE DigitsValue(_)
DigitsValue(ds) ==
    IF ds = <<>> THEN 0
    ELSE 10 * DigitsValue(SubSeq(ds, 1, Len(ds) - 1))
         + (CHOOSE d \in 0..9 : DigitChar(d) = ds[Len(ds)])

IsEpsg(crs, code) ==
    /\ Len(crs) > 5
    /\ SubSeq(crs, 1, 5) = <<"E", "P", "S", "G", ":">>
    /\ DigitsValue(SubSeq(crs, 6, Len(crs))) = code

\* C8: None with --no-conversion; otherwise, for a given UTM zone ZZ, EPSG:326ZZ
\* when the hemisphere is n or north and EPSG:327ZZ when it is s or south;
\* EPSG:31468 when no projection option is given
C8_CrsAsDocumented ==
    pc = "crs_done" =>
        IF args.no_conversion THEN crs_result = NoneCrs
        ELSE IF args.utm_zone = NoZone THEN IsEpsg(crs_result, 31468)
        ELSE IF args.utm_zone[1] = 0 THEN TRUE
        ELSE IF args.utm_hemisphere \in {"n", "north"}
             THEN IsEpsg(crs_result, 32600 + args.utm_zone[1])
             ELSE IsEpsg(crs_result, 32700 + args.utm_zone[1])

\* --------------------------------------------------------------- read_coordinates
MaxLineLen == 5
MaxLines == 2

\* a digit, white space, the comment mark, and a character no number contains
Chars == {"1", " ", "#", "x"}
Lines == SeqsUpTo(Chars, MaxLineLen)

RECURSIVE lstrip(_)
lstrip(l) == IF l # <<>> /\ Head(l) = " " THEN lstrip(Tail(l)) ELSE l

RECURSIVE rstrip(_)
rstrip(l) == IF l # <<>> /\ l[Len(l)] = " " THEN rstrip(SubSeq(l, 1, Len(l) - 1)) ELSE l

\* str.strip()
strip(l) == rstrip(lstrip(l))

\* the leading run of non-blank characters
RECURSIVE TakeToken(_)
TakeToken(l) == IF l = <<>> \/ Head(l) = " " THEN <<>> ELSE <<Head(l)>> \o TakeToken(Tail(l))

\* str.split(): the maximal runs of non-blank characters
RECURSIVE split(_)
split(l) ==
    LET rest == lstrip(l)
    IN  IF rest = <<>> THEN <<>>
        ELSE LET tok == TakeToken(rest)
             IN  <<tok>> \o split(SubSeq(rest, Len(tok) + 1, Len(rest)))

\* float(s) raises ValueError unless s is a number
FloatParses(tok) == tok # <<>> /\ \A i \in 1..Len(tok) : tok[i] \in {DigitChar(d) : d \in 0..9}

\* float(s) of a string of digits
FloatValue(tok) == DigitsValue(tok)

\* a plausible slip: the two columns are taken in the wrong order
read_line_swapped(pts, line) ==
    LET l == strip(line)
    IN  IF l # <<>> /\ l[1] # "#"
        THEN LET parts == split(l)
             IN  IF Len(parts) >= 2
                 THEN IF FloatParses(parts[1]) /\ FloatParses(parts[2])
                      THEN Append(pts, <<FloatValue(parts[2]), FloatValue(parts[1])>>)
                      ELSE pts
                 ELSE pts
        ELSE pts

\* one iteration of the loop over the file, lines 14-24
read_line(pts, line) ==
    LET l == strip(line)
    IN  IF l # <<>> /\ l[1] # "#"
        THEN LET parts == split(l)
             IN  IF Len(parts) >= 2
                 THEN IF FloatParses(parts[1]) /\ FloatParses(parts[2])
                      THEN Append(pts, <<FloatValue(parts[1]), FloatValue(parts[2])>>)
                      ELSE pts
                 ELSE pts
        ELSE pts

\* what the claim calls a well-formed line, stated on the positions of the line:
\* a token is a maximal run of non-blank characters
TokenSpans(line) ==
    {sp \in (1..Len(line)) \X (1..Len(line)) :
        /\ sp[1] <= sp[2]
        /\ \A i \in sp[1]..sp[2] : line[i] # " "
        /\ (sp[1] = 1 \/ line[sp[1] - 1] = " ")
        /\ (sp[2] = Len(line) \/ line[sp[2] + 1] = " ")}

NthSpan(line, n) ==
    CHOOSE sp \in TokenSpans(line) :
        Cardinality({o \in TokenSpans(line) : o[1] < sp[1]}) = n - 1

IsNumber(line, sp) == \A i \in sp[1]..sp[2] : line[i] = "1"

WellFormed(line) ==
    /\ \E i \in 1..Len(line) : line[i] # " "
    /\ line[1] # "#"
    /\ Cardinality(TokenSpans(line)) >= 2
    /\ IsNumber(line, NthSpan(line, 1))
    /\ IsNumber(line, NthSpan(line, 2))

PairOf(line) ==
    LET a == NthSpan(line, 1)
        b == NthSpan(line, 2)
    IN  <<FloatValue(SubSeq(line, a[1], a[2])), FloatValue(SubSeq(line, b[1], b[2]))>>

ReadInit ==
    /\ pc = "read"
    /\ out = <<>>
    /\ rd_n = 0
    /\ rd_points = <<>>
    /\ rd_expected = <<>>
    /\ PipeIdle
    /\ CrsIdle
    /\ DedupIdle
    /\ ScanIdle

\* the next line of the file is read and handled; rd_expected keeps the pairs of
\* the well-formed lines read so far
ReadLine ==
    /\ pc = "read"
    /\ rd_n < MaxLines
    /\ \E line \in Lines :
         /\ rd_points' = read_line(rd_points, line)
         /\ rd_expected' = IF WellFormed(line) THEN Append(rd_expected, PairOf(line))
                           ELSE rd_expected
    /\ rd_n' = rd_n + 1
    /\ UNCHANGED <<pc, out, pipeVars, crsVars, dedupVars, scanVars>>

\* end of file, line 25: return np.array(points)
ReadReturn ==
    /\ pc = "read"
    /\ pc' = "read_done"
    /\ UNCHANGED <<out, readVars, pipeVars, crsVars, dedupVars, scanVars>>

NextRead ==
    \/ ReadLine
    \/ ReadReturn

SpecRead == ReadInit /\ [][NextRead]_vars

\* C5: read_coordinates returns exactly the pairs of the lines that are not blank,
\* do not start with '#' and have two leading tokens that parse as floats, one pair
\* per such line, in file order; no other line adds anything or raises
C5_ExactlyTheWellFormedPairs ==
    rd_points = rd_expected

C5_Witness ==
    /\ pc = "read_done"
    /\ rd_n = 2
    /\ Len(rd_points) = 1
    /\ rd_points[1][1] # rd_points[1][2]

\* ------------------------------------------------------------- find_viable_arrays
MaxFiles == 2
MaxArrayLen == 2

\* a file of the folder: its extension, whether np.load succeeds on it, and the
\* values of the array it holds; a file's name is its place in os.listdir's answer
\* with its extension
Values == {0, 1}
FileKinds ==
    [ext : {".npy", ".txt"}, loads : {TRUE}, array : SeqsUpTo(Values, MaxArrayLen)]
    \cup [ext : {".npy", ".txt"}, loads : {FALSE}, array : {<<>>}]

Folders == [exists : {TRUE}, files : SeqsUpTo(FileKinds, MaxFiles)]
           \cup [exists : {FALSE}, files : {<<>>}]

FileName(i, f) == <<i, f.ext>>

\* line 33: the names that end in .npy, in listing order
RECURSIVE NpyFrom(_, _)
NpyFrom(files, i) ==
    IF i > Len(files) THEN <<>>
    ELSE IF files[i].ext = ".npy" THEN <<i>> \o NpyFrom(files, i + 1)
    ELSE NpyFrom(files, i + 1)

\* np.unique(array): the distinct values
np_unique(a) == Range(a)

\* line 52: len(unique_values) > 1
is_viable(a) == Cardinality(np_unique(a)) > 1

\* a plausible slip: the try statement encloses the loop, so a failure ends the scan
after_failure_stop(rest) == <<>>

\* lines 58-59: the except branch is inside the loop, which goes on with the rest
after_failure(rest) == rest

ScanInit ==
    /\ pc = "scan"
    /\ out = <<>>
    /\ folder \in Folders
    /\ todo = <<>>
    /\ valid_arrays = <<>>
    /\ PipeIdle
    /\ CrsIdle
    /\ DedupIdle
    /\ ReadIdle

\* lines 25-39: the folder is checked and listed
ScanStart ==
    /\ pc = "scan"
    /\ IF ~ folder.exists
       THEN /\ out' = Append(out, <<"Error: Folder does not exist">>)
            /\ pc' = "scan_done"
            /\ todo' = todo
       ELSE LET npy_files == NpyFrom(folder.files, 1)
            IN  IF npy_files = <<>>
                THEN /\ out' = Append(out, <<"No .npy files found">>)
                     /\ pc' = "scan_done"
                     /\ todo' = todo
                ELSE /\ out' = Append(out, <<"Found .npy files", "count", Len(npy_files)>>)
                     /\ pc' = "scan_loop"
                     /\ todo' = npy_files
    /\ UNCHANGED <<folder, valid_arrays, pipeVars, crsVars, dedupVars, readVars>>

\* lines 41-59: one file is loaded and classified; printing the single value of an
\* array that has none raises IndexError inside the try
ScanFile ==
    /\ pc = "scan_loop"
    /\ todo # <<>>
    /\ LET i == Head(todo)
           f == folder.files[i]
           filename == FileName(i, f)
       IN  IF ~ f.loads
           THEN /\ out' = Append(out, <<"Error loading", filename>>)
                /\ valid_arrays' = valid_arrays
                /\ todo' = after_failure(Tail(todo))
           ELSE IF is_viable(f.array)
           THEN /\ valid_arrays' = Append(valid_arrays, filename)
                /\ out' = Append(out, <<"multiple unique values", filename>>)
                /\ todo' = Tail(todo)
           ELSE IF np_unique(f.array) = {}
           THEN /\ out' = Append(out, <<"Error loading", filename>>)
                /\ valid_arrays' = valid_arrays
                /\ todo' = after_failure(Tail(todo))
           ELSE /\ out' = Append(out, <<"Only 1 unique value", filename>>)
                /\ valid_arrays' = valid_arrays
                /\ todo' = Tail(todo)
    /\ UNCHANGED <<pc, folder, pipeVars, crsVars, dedupVars, readVars>>

\* lines 61-62: the loop is over and the list is returned
ScanReturn ==
    /\ pc = "scan_loop"
    /\ todo = <<>>
    /\ out' = Append(out, <<"Found arrays with multiple unique values", "count", Len(valid_arrays)>>)
    /\ pc' = "scan_done"
    /\ UNCHANGED <<folder, todo, valid_arrays, pipeVars, crsVars, dedupVars, readVars>>

NextScan ==
    \/ ScanStart
    \/ ScanFile
    \/ ScanReturn

SpecScan == ScanInit /\ [][NextScan]_vars

Reports(name) == {k \in 1..Len(out) : Len(out[k]) = 2 /\ out[k][2] = name}

====
